---- MODULE Spec2Model ----
(***************************************************************************)
(* The background workers of the OLAP engine (olap_server.cpp): the        *)
(* bootstrap _start_bg_worker, the six worker callbacks it spawns, and the *)
(* process-wide counter g_schema_change_active_threads.                    *)
(*                                                                         *)
(* Every thread is modelled at the granularity of its blocking points: a   *)
(* worker is "start" (spawned, not yet run), "sleep" (inside sleep/usleep),*)
(* "cgroup" (inside CgroupsMgr::apply_system_cgroup), "call" (inside its   *)
(* collaborator) or, for the garbage sweeper, "top" (at the head of its    *)
(* loop).                                                                  *)
(*                                                                         *)
(* uint32_t values are pairs <<hi, lo>> of 16-bit halves, so that the      *)
(* conversions from the signed configuration values keep their 32-bit      *)
(* width.                                                                  *)
(***************************************************************************)
EXTENDS Integers, Sequences, FiniteSets, TLC

(***************************************************************************)
(* Bounds of the model.                                                    *)
(***************************************************************************)
\* largest legal pool size the configurations enumerate
MaxThreads == 1
\* largest stale usage value (in hundredths) the sweep collaborator may
\* leave unwritten; above it the collaborator writes its output
MaxStaleUsage == 10000
\* number of threads of the schema-change subsystem touching the counter
MaxChangers == 2

(***************************************************************************)
(* 32-bit integers.                                                        *)
(***************************************************************************)
Half == 2^16

Int32Max == 2147483647

Int32Min == -Int32Max - 1

\* int32_t -> uint32_t: the value modulo 2^32, as <<hi, lo>>
ToUint32(c) ==
    IF c >= 0
    THEN <<c \div Half, c % Half>>
    ELSE LET d == (c + Int32Max) + 1    \* c + 2^31, in 0 .. 2^31 - 1
         IN <<(Half \div 2) + (d \div Half), d % Half>>

U32Zero == <<0, 0>>

U32Less(a, b) == a[1] < b[1] \/ (a[1] = b[1] /\ a[2] < b[2])

U32LessEq(a, b) == a = b \/ U32Less(a, b)

U32Greater(a, b) == U32Less(b, a)

U32GreaterEq(a, b) == U32LessEq(b, a)

\* the product of two 16-bit halves, as a uint32_t
MulHalf(x, y) ==
    LET p1 == x * (y % 256)
        p2 == x * (y \div 256)
        t  == (p2 % 256) * 256 + p1
    IN <<(p2 \div 256) + (t \div Half), t % Half>>

\* the product of two uint32_t values in full: four halves, highest first
Times(a, b) ==
    LET p00 == MulHalf(a[2], b[2])
        p01 == MulHalf(a[2], b[1])
        p10 == MulHalf(a[1], b[2])
        p11 == MulHalf(a[1], b[1])
        s1  == p00[1] + p01[2] + p10[2]
        s2  == p01[1] + p10[1] + p11[2] + (s1 \div Half)
    IN <<p11[1] + (s2 \div Half), s2 % Half, s1 % Half, p00[2]>>

\* unsigned 32-bit multiplication: the low 32 bits of the product
U32Times(a, b) == <<Times(a, b)[3], Times(a, b)[4]>>

\* a uint32_t as a 64-bit value
ZeroExtend(a) == <<0, 0, a[1], a[2]>>

(***************************************************************************)
(* The configuration: signed 32-bit values read by the workers.            *)
(***************************************************************************)
\* the safe defaults the callbacks force
FdCacheDefault == 3600

CheckDefault == 1

\* usleep(interval * 1000000): the int literal is converted to unsigned
\* and the product is a 32-bit unsigned one
Microseconds == 1000000

UsleepArgument(interval) == U32Times(interval, ToUint32(Microseconds))

\* uint32_t interval = config::...; if (interval <= 0) interval = dflt;
ValidInterval(c, dflt) ==
    LET interval == ToUint32(c)
    IN IF U32LessEq(interval, U32Zero) THEN ToUint32(dflt) ELSE interval

(***************************************************************************)
(* The sweep policy of _garbage_sweeper_thread_callback.                   *)
(*                                                                         *)
(* usage is a double; the model keeps it in hundredths (1.0 is 100), so    *)
(* usage *= 100.0 multiplies the stored number by 100 and the percentage   *)
(* the formula reads is the stored number divided by 100.                  *)
(*                                                                         *)
(* ratio is a double in (-0.09, 0.986); the model keeps it in units of     *)
(* 2^-30.  RatioTable[p + 1] is                                            *)
(*   floor(2^30 * (1.1 * (pi/2 - atan(p/5 - 14)) - 0.28) / pi)             *)
(* evaluated in IEEE doubles for the whole percentages p = 0 .. 100.       *)
(***************************************************************************)
MaxPercent == 100

Digit == 2^15

RatioTable ==
    <<1058608049, 1058220859, 1057822343, 1057411995, 1056989282,
       1056553638, 1056104461, 1055641113, 1055162913, 1054669138,
       1054159015, 1053631721, 1053086376, 1052522040, 1051937706,
       1051332294, 1050704647, 1050053521, 1049377576, 1048675371,
       1047945351, 1047185835, 1046395005, 1045570893, 1044711358,
       1043814079, 1042876522, 1041895927, 1040869275, 1039793260,
       1038664251, 1037478259, 1036230882, 1034917257, 1033531998,
       1032069123, 1030521967, 1028883090, 1027144152, 1025295785,
       1023327422, 1021227103, 1018981246, 1016574359, 1013988699,
       1011203855, 1008196232, 1004938420, 1001398403, 997538570,
       993314468, 988673211, 983551445, 977872709, 971543999,
       964451239, 956453277, 947373862, 936990842, 925021610,
       911103494, 894767656, 875405365, 852227311, 824222439,
       790137866, 748535077, 698035467, 637914385, 569071877,
       494858864, 420645851, 351803344, 291682262, 241182651,
       199579863, 165495290, 137490417, 114312363, 94950072,
       78614234, 64696118, 52726886, 42343867, 33264451,
       25266489, 18173729, 11845019, 6166283, 1044517,
       -3596740, -7820842, -11680675, -15220691, -18478503,
       -21486126, -24270971, -26856631, -29263518, -31509375,
       -33609693>>

\* the limit of the formula as the percentage grows (atan -> pi/2):
\* floor(2^30 * (-0.28 / pi)); every percentage above 100 lies between
\* RatioTable[101] and this value, both negative
RatioLimit == -95699139

\* double usage = 1.0;
UsageSeed == 100

\* usage *= 100.0;
ToPercentNoScale(usage) == usage

ToPercent(usage) == usage * 100

\* double ratio = (1.1 * (pi / 2 - std::atan(usage / 5 - 14)) - 0.28) / pi;
\* (usage is the stored number after usage *= 100.0)
RawRatio(usage) ==
    LET p == usage \div 100
    IN IF p <= MaxPercent THEN RatioTable[p + 1] ELSE RatioLimit

\* ratio = ratio > 0 ? ratio : 0;
RatioAbs(raw) == IF raw > 0 THEN raw ELSE -raw

Ratio(raw) == IF raw > 0 THEN raw ELSE 0

\* uint32_t curr_interval = max_interval * ratio;
\* the product of a uint32_t and a ratio r / 2^30 (0 <= r < 2^30), truncated,
\* by long multiplication in digits of 15 bits
ScaleU32(m, r) ==
    LET r0 == r % Digit
        r1 == r \div Digit
        t  == 2 * m[1] + (m[2] \div Digit)
        m0 == m[2] % Digit
        m1 == t % Digit
        m2 == t \div Digit
        c0 == m0 * r0
        c1 == m0 * r1 + m1 * r0
        c2 == m1 * r1 + m2 * r0
        c3 == m2 * r1
        s1 == c1 + (c0 \div Digit)
        s2 == c2 + (s1 \div Digit)      \* the quotient is c3 * 2^15 + s2
        lo == (s2 % Half) + (c3 % 2) * Digit
    IN <<(s2 \div Half) + (c3 \div 2) + (lo \div Half), lo % Half>>

\* curr_interval = curr_interval > min_interval ? curr_interval : min_interval;
SweepIntervalNoFloor(max_interval, min_interval, ratio) ==
    ScaleU32(max_interval, ratio)

SweepInterval(max_interval, min_interval, ratio) ==
    LET curr_interval == ScaleU32(max_interval, ratio)
    IN IF U32Greater(curr_interval, min_interval)
       THEN curr_interval
       ELSE min_interval

\* the start-up validation of (max_interval, min_interval)
ValidSweepKeepMin(cmax, cmin) ==
    LET max_interval == ToUint32(cmax)
        min_interval == ToUint32(cmin)
        kept == IF U32Greater(min_interval, U32Zero)
                THEN min_interval
                ELSE ToUint32(1)
    IN [min |-> kept,
        max |-> IF U32GreaterEq(max_interval, kept) THEN max_interval ELSE kept]

ValidSweepNoRaise(cmax, cmin) ==
    LET max_interval == ToUint32(cmax)
        min_interval == ToUint32(cmin)
    IN IF ~(U32GreaterEq(max_interval, min_interval)
            /\ U32Greater(min_interval, U32Zero))
       THEN [min |-> ToUint32(1), max |-> max_interval]
       ELSE [min |-> min_interval, max |-> max_interval]

ValidSweep(cmax, cmin) ==
    LET max_interval == ToUint32(cmax)
        min_interval == ToUint32(cmin)
    IN IF ~(U32GreaterEq(max_interval, min_interval)
            /\ U32Greater(min_interval, U32Zero))
       THEN LET forced == ToUint32(1)
            IN [min |-> forced,
                max |-> IF U32GreaterEq(max_interval, forced)
                        THEN max_interval
                        ELSE forced]
       ELSE [min |-> min_interval, max |-> max_interval]

(***************************************************************************)
(* The configurations enumerated.  Each is a record of the nine config::   *)
(* values the code reads, all int32_t.  BaseConfig is a legal one; the     *)
(* others change one worker's values at a time.                            *)
(***************************************************************************)
BaseConfig ==
    [file_descriptor_cache_clean_interval         |-> 3600,
     base_compaction_check_interval_seconds       |-> 1,
     cumulative_compaction_check_interval_seconds |-> 1,
     disk_stat_monitor_interval                   |-> 1,
     unused_index_monitor_interval                |-> 1,
     max_garbage_sweep_interval                   |-> 3600,
     min_garbage_sweep_interval                   |-> 1,
     base_compaction_num_threads                  |-> 1,
     cumulative_compaction_num_threads            |-> 1]

IntervalKeys ==
    {"file_descriptor_cache_clean_interval",
     "base_compaction_check_interval_seconds",
     "cumulative_compaction_check_interval_seconds",
     "disk_stat_monitor_interval",
     "unused_index_monitor_interval"}

IntervalValues == {Int32Min, -1, 0, 7}

\* -1 stands for the illegal pool sizes
ThreadCounts == -1 .. MaxThreads

SweepValues == {Int32Min, -1, 0, 1, 5, 10, 3600, Int32Max}

IntervalConfigs ==
    {[BaseConfig EXCEPT ![k] = v] : k \in IntervalKeys, v \in IntervalValues}

PoolConfigs ==
    {[BaseConfig EXCEPT !.base_compaction_num_threads = n,
                        !.cumulative_compaction_num_threads = m] :
        n \in ThreadCounts, m \in ThreadCounts}

SweepConfigs ==
    {[BaseConfig EXCEPT !.max_garbage_sweep_interval = mx,
                        !.min_garbage_sweep_interval = mn] :
        mx \in SweepValues, mn \in SweepValues}

Configs == IntervalConfigs \cup PoolConfigs

(***************************************************************************)
(* The threads.  A compaction pool has one slot more than the largest      *)
(* pool size of ThreadCounts (StallConfigs fills every slot).              *)
(***************************************************************************)
Sweeper == <<"garbage_sweeper", 0>>

DiskStat == <<"disk_stat_monitor", 0>>

UnusedIndex == <<"unused_index", 0>>

FdCache == <<"fd_cache_clean", 0>>

BaseThreads == {<<"base_compaction", n>> : n \in 0 .. MaxThreads}

CumuThreads == {<<"cumulative_compaction", n>> : n \in 0 .. MaxThreads}

Workers ==
    {Sweeper, DiskStat, UnusedIndex, FdCache} \cup BaseThreads \cup CumuThreads

Status == {"OLAP_SUCCESS", "OLAP_ERR"}

\* the usage fractions (in hundredths) start_trash_sweep writes
CoarseUsage == {100}

FineUsage == 0 .. MaxPercent

VARIABLES
    cfg,            \* the config:: values
    boot,           \* where _start_bg_worker is
    i,              \* its loop counter
    ret,            \* what it returned
    pc,             \* where each worker is ("none": not spawned)
    interval,       \* each fixed-interval worker's uint32_t interval
    max_interval,   \* the sweeper's locals
    min_interval,
    usage,
    curr_interval,
    res,
    first_sleep,    \* history: the sweeper has not yet completed a sleep
    useconds,       \* the argument of the usleep a compaction worker is in
    g_schema_change_active_threads,
    changer,        \* where each schema-change thread is
    loaded,         \* the counter value it read
    incs,           \* history: increments and decrements completed
    decs,
    tablets,        \* the TabletInfo objects constructed
    less,           \* the results of operator< on them
    version,        \* the fields of a VersionEntity
    version_hash,
    rowset_vec,
    constructed,    \* history: the arguments of its constructor
    added           \* history: the arguments of add_rowset_entity, in order

bootVars == <<boot, i, ret>>

sweepVars ==
    <<max_interval, min_interval, usage, curr_interval, res, first_sleep>>

counterVars == <<g_schema_change_active_threads, changer, loaded, incs, decs>>

tabletVars == <<tablets, less>>

entityVars == <<version, version_hash, rowset_vec, constructed, added>>

dataVars == <<tabletVars, entityVars>>

vars ==
    <<cfg, boot, i, ret, pc, interval, max_interval, min_interval, usage,
      curr_interval, res, first_sleep, useconds,
      g_schema_change_active_threads, changer, loaded, incs, decs,
      tablets, less, version, version_hash, rowset_vec, constructed, added>>

Changers == 1 .. MaxChangers

\* the engine before _start_bg_worker runs
EngineInit(configs) ==
    /\ cfg \in configs
    /\ boot = "garbage_sweeper"
    /\ i = 0
    /\ ret = "none"
    /\ pc = [w \in Workers |-> "none"]
    /\ interval = [w \in Workers |-> U32Zero]
    /\ max_interval = U32Zero
    /\ min_interval = U32Zero
    /\ usage = UsageSeed
    /\ curr_interval = U32Zero
    /\ res = "OLAP_SUCCESS"
    /\ first_sleep = TRUE
    /\ g_schema_change_active_threads = U32Zero
    /\ changer = [t \in Changers |-> "idle"]
    /\ loaded = [t \in Changers |-> U32Zero]
    /\ incs = 0
    /\ decs = 0
    /\ useconds = [w \in Workers |-> U32Zero]

\* no TabletInfo constructed, nothing compared
NoTablets ==
    /\ tablets = <<>>
    /\ less = <<>>

\* VersionEntity(v, version_hash): the fields as the constructor leaves them
EntityInit(versions, hashes) ==
    \E v \in versions, h \in hashes :
        /\ version = v
        /\ version_hash = h
        /\ rowset_vec = <<>>
        /\ constructed = [version |-> v, version_hash |-> h]
        /\ added = <<>>

InitWith(configs) ==
    /\ EngineInit(configs)
    /\ NoTablets
    /\ EntityInit({<<100, 110>>}, {0})

Init == InitWith(Configs)

(***************************************************************************)
(* _start_bg_worker                                                        *)
(***************************************************************************)
\* std::thread(...): the worker exists and has not run yet
Spawn(w) == pc' = [pc EXCEPT ![w] = "start"]

\* vector::reserve(n) with the int32_t n converted to size_type: a negative
\* n becomes a size above max_size() and reserve throws std::length_error
ReserveThrows(n) == n < 0

\* for (uint32_t i = 0; i < n; ++i): n is converted to uint32_t
LoopRunsOnceMore(k, n) == U32LessEq(ToUint32(k), ToUint32(n))

LoopRuns(k, n) == U32Less(ToUint32(k), ToUint32(n))

StartSingle(here, w, next) ==
    /\ boot = here
    /\ Spawn(w)
    /\ boot' = next
    /\ UNCHANGED <<cfg, i, ret, interval, sweepVars, counterVars, useconds,
                   dataVars>>

StartGarbageSweeper ==
    StartSingle("garbage_sweeper", Sweeper, "disk_stat_monitor")

StartDiskStatMonitor ==
    StartSingle("disk_stat_monitor", DiskStat, "unused_index")

StartUnusedIndex == StartSingle("unused_index", UnusedIndex, "base_reserve")

Reserve(here, n, next) ==
    /\ boot = here
    /\ boot' = IF ReserveThrows(n) THEN "thrown" ELSE next
    /\ i' = 0
    /\ UNCHANGED <<cfg, ret, pc, interval, sweepVars, counterVars, useconds,
                   dataVars>>

SpawnLoop(here, kind, n, next) ==
    /\ boot = here
    /\ IF LoopRuns(i, n)
       THEN /\ Spawn(<<kind, i>>)
            /\ i' = i + 1
            /\ boot' = here
       ELSE /\ boot' = next
            /\ UNCHANGED <<pc, i>>
    /\ UNCHANGED <<cfg, ret, interval, sweepVars, counterVars, useconds,
                   dataVars>>

ReserveBase ==
    Reserve("base_reserve", cfg.base_compaction_num_threads, "base_loop")

StartBaseCompaction ==
    SpawnLoop("base_loop", "base_compaction", cfg.base_compaction_num_threads,
              "cumulative_reserve")

ReserveCumulative ==
    Reserve("cumulative_reserve", cfg.cumulative_compaction_num_threads,
            "cumulative_loop")

StartCumulativeCompaction ==
    SpawnLoop("cumulative_loop", "cumulative_compaction",
              cfg.cumulative_compaction_num_threads, "fd_cache_clean")

StartFdCacheClean == StartSingle("fd_cache_clean", FdCache, "return")

\* return OLAP_SUCCESS;
BootReturn ==
    /\ boot = "return"
    /\ boot' = "done"
    /\ ret' = "OLAP_SUCCESS"
    /\ UNCHANGED <<cfg, i, pc, interval, sweepVars, counterVars, useconds,
                   dataVars>>

Boot ==
    \/ StartGarbageSweeper
    \/ StartDiskStatMonitor
    \/ StartUnusedIndex
    \/ ReserveBase
    \/ StartBaseCompaction
    \/ ReserveCumulative
    \/ StartCumulativeCompaction
    \/ StartFdCacheClean
    \/ BootReturn

(***************************************************************************)
(* The worker callbacks.                                                   *)
(***************************************************************************)
\* worker w goes from one blocking point to the next; nothing it waits for
\* is held or written by another worker
MoveUnderLock(w, from, to) ==
    /\ pc[w] = from
    /\ to = "call" => \A v \in DOMAIN pc : v = w \/ pc[v] # "call"
    /\ pc' = [pc EXCEPT ![w] = to]

Move(w, from, to) ==
    /\ pc[w] = from
    /\ pc' = [pc EXCEPT ![w] = to]

SetInterval(w, c, dflt) ==
    interval' = [interval EXCEPT ![w] = ValidInterval(c, dflt)]

\* where a worker goes when its collaborator has returned r: no callback
\* leaves its loop, whatever r is
AfterCallExitOnError(r, next) == IF r = "OLAP_SUCCESS" THEN next ELSE "exited"

AfterCall(r, next) == next

\* where a compaction worker continues when its usleep ends: at the head
\* of while (true), whose first statement is apply_system_cgroup()
CompactionLoopHeadJoinOnce(w) == "call"

CompactionLoopHead(w) == "cgroup"

\* ---- _fd_cache_clean_callback: validate; loop { sleep; clean }
FdCacheValidate ==
    /\ Move(FdCache, "start", "sleep")
    /\ SetInterval(FdCache, cfg.file_descriptor_cache_clean_interval,
                   FdCacheDefault)
    /\ UNCHANGED <<cfg, bootVars, sweepVars, counterVars, useconds,
                   dataVars>>

FdCacheWake ==
    /\ Move(FdCache, "sleep", "call")
    /\ UNCHANGED <<cfg, bootVars, interval, sweepVars, counterVars, useconds,
                   dataVars>>

FdCacheReturn ==
    /\ Move(FdCache, "call", "sleep")
    /\ UNCHANGED <<cfg, bootVars, interval, sweepVars, counterVars, useconds,
                   dataVars>>

\* ---- _disk_stat_monitor_thread_callback: validate; loop { monitor; sleep }
DiskStatValidate ==
    /\ Move(DiskStat, "start", "call")
    /\ SetInterval(DiskStat, cfg.disk_stat_monitor_interval, CheckDefault)
    /\ UNCHANGED <<cfg, bootVars, sweepVars, counterVars, useconds,
                   dataVars>>

DiskStatReturn ==
    /\ \E r \in Status : Move(DiskStat, "call", AfterCall(r, "sleep"))
    /\ UNCHANGED <<cfg, bootVars, interval, sweepVars, counterVars, useconds,
                   dataVars>>

DiskStatWake ==
    /\ Move(DiskStat, "sleep", "call")
    /\ UNCHANGED <<cfg, bootVars, interval, sweepVars, counterVars, useconds,
                   dataVars>>

\* ---- _unused_index_thread_callback: validate; loop { delete; sleep }
UnusedIndexValidate ==
    /\ Move(UnusedIndex, "start", "call")
    /\ SetInterval(UnusedIndex, cfg.unused_index_monitor_interval,
                   CheckDefault)
    /\ UNCHANGED <<cfg, bootVars, sweepVars, counterVars, useconds,
                   dataVars>>

UnusedIndexReturn ==
    /\ \E r \in Status : Move(UnusedIndex, "call", AfterCall(r, "sleep"))
    /\ UNCHANGED <<cfg, bootVars, interval, sweepVars, counterVars, useconds,
                   dataVars>>

UnusedIndexWake ==
    /\ Move(UnusedIndex, "sleep", "call")
    /\ UNCHANGED <<cfg, bootVars, interval, sweepVars, counterVars, useconds,
                   dataVars>>

\* ---- _base_compaction_thread_callback:
\*      validate; loop { apply_system_cgroup; compact; usleep }
BaseValidate(w) ==
    /\ Move(w, "start", "cgroup")
    /\ SetInterval(w, cfg.base_compaction_check_interval_seconds,
                   CheckDefault)
    /\ UNCHANGED <<cfg, bootVars, sweepVars, counterVars, useconds,
                   dataVars>>

BaseJoined(w) ==
    /\ Move(w, "cgroup", "call")
    /\ UNCHANGED <<cfg, bootVars, interval, sweepVars, counterVars, useconds,
                   dataVars>>

BaseReturn(w) ==
    /\ \E r \in Status : Move(w, "call", AfterCall(r, "sleep"))
    /\ useconds' = [useconds EXCEPT ![w] = UsleepArgument(interval[w])]
    /\ UNCHANGED <<cfg, bootVars, interval, sweepVars, counterVars,
                   dataVars>>

BaseWake(w) ==
    /\ Move(w, "sleep", CompactionLoopHead(w))
    /\ useconds' = [useconds EXCEPT ![w] = U32Zero]
    /\ UNCHANGED <<cfg, bootVars, interval, sweepVars, counterVars,
                   dataVars>>

\* ---- _cumulative_compaction_thread_callback: the same shape
CumulativeValidate(w) ==
    /\ Move(w, "start", "cgroup")
    /\ SetInterval(w, cfg.cumulative_compaction_check_interval_seconds,
                   CheckDefault)
    /\ UNCHANGED <<cfg, bootVars, sweepVars, counterVars, useconds,
                   dataVars>>

CumulativeJoined(w) ==
    /\ Move(w, "cgroup", "call")
    /\ UNCHANGED <<cfg, bootVars, interval, sweepVars, counterVars, useconds,
                   dataVars>>

CumulativeReturn(w) ==
    /\ \E r \in Status : Move(w, "call", AfterCall(r, "sleep"))
    /\ useconds' = [useconds EXCEPT ![w] = UsleepArgument(interval[w])]
    /\ UNCHANGED <<cfg, bootVars, interval, sweepVars, counterVars,
                   dataVars>>

CumulativeWake(w) ==
    /\ Move(w, "sleep", CompactionLoopHead(w))
    /\ useconds' = [useconds EXCEPT ![w] = U32Zero]
    /\ UNCHANGED <<cfg, bootVars, interval, sweepVars, counterVars,
                   dataVars>>

\* ---- _garbage_sweeper_thread_callback:
\*      validate; loop { compute curr_interval; sleep; sweep }
SweeperValidate ==
    /\ Move(Sweeper, "start", "top")
    /\ LET v == ValidSweep(cfg.max_garbage_sweep_interval,
                           cfg.min_garbage_sweep_interval)
       IN /\ max_interval' = v.max
          /\ min_interval' = v.min
    /\ UNCHANGED <<cfg, bootVars, interval, usage, curr_interval, res,
                   first_sleep, counterVars, useconds,
                   dataVars>>

\* from the head of the loop to sleep(curr_interval)
SweeperCompute ==
    /\ Move(Sweeper, "top", "sleep")
    /\ usage' = ToPercent(usage)
    /\ curr_interval' =
           SweepInterval(max_interval, min_interval, Ratio(RawRatio(usage')))
    /\ UNCHANGED <<cfg, bootVars, interval, max_interval, min_interval, res,
                   first_sleep, counterVars, useconds,
                   dataVars>>

SweeperWake ==
    /\ Move(Sweeper, "sleep", "call")
    /\ first_sleep' = FALSE
    /\ UNCHANGED <<cfg, bootVars, interval, max_interval, min_interval, usage,
                   curr_interval, res, counterVars, useconds,
                   dataVars>>

\* start_trash_sweep(&usage) returns r.  On success it has written a usage
\* fraction; on failure it has written one or left usage as it was.  The
\* iteration ends: curr_interval, declared in the loop body, is gone (res is
\* kept, as the result of the last sweep).
SweeperReturn(fractions) ==
    /\ \E r \in Status :
          /\ Move(Sweeper, "call", AfterCall(r, "top"))
          /\ res' = r
          /\ \/ \E u \in fractions : usage' = u
             \/ /\ r # "OLAP_SUCCESS"
                /\ usage <= MaxStaleUsage
                /\ usage' = usage
    /\ curr_interval' = U32Zero
    /\ UNCHANGED <<cfg, bootVars, interval, max_interval, min_interval,
                   first_sleep, counterVars, useconds,
                   dataVars>>

SweeperSteps(fractions) ==
    \/ SweeperValidate
    \/ SweeperCompute
    \/ SweeperWake
    \/ SweeperReturn(fractions)

\* every step of worker w
Thread(w) ==
    \/ w = Sweeper /\ SweeperSteps(CoarseUsage)
    \/ w = DiskStat /\ (DiskStatValidate \/ DiskStatReturn \/ DiskStatWake)
    \/ w = UnusedIndex
         /\ (UnusedIndexValidate \/ UnusedIndexReturn \/ UnusedIndexWake)
    \/ w = FdCache /\ (FdCacheValidate \/ FdCacheWake \/ FdCacheReturn)
    \/ w \in BaseThreads
         /\ (BaseValidate(w) \/ BaseJoined(w) \/ BaseReturn(w) \/ BaseWake(w))
    \/ w \in CumuThreads
         /\ (CumulativeValidate(w) \/ CumulativeJoined(w)
               \/ CumulativeReturn(w) \/ CumulativeWake(w))

Next ==
    \/ StartGarbageSweeper
    \/ StartDiskStatMonitor
    \/ StartUnusedIndex
    \/ ReserveBase
    \/ StartBaseCompaction
    \/ ReserveCumulative
    \/ StartCumulativeCompaction
    \/ StartFdCacheClean
    \/ BootReturn
    \/ SweeperValidate
    \/ SweeperCompute
    \/ SweeperWake
    \/ SweeperReturn(CoarseUsage)
    \/ DiskStatValidate
    \/ DiskStatReturn
    \/ DiskStatWake
    \/ UnusedIndexValidate
    \/ UnusedIndexReturn
    \/ UnusedIndexWake
    \/ FdCacheValidate
    \/ FdCacheWake
    \/ FdCacheReturn
    \/ \E w \in BaseThreads : BaseValidate(w)
    \/ \E w \in BaseThreads : BaseJoined(w)
    \/ \E w \in BaseThreads : BaseReturn(w)
    \/ \E w \in BaseThreads : BaseWake(w)
    \/ \E w \in CumuThreads : CumulativeValidate(w)
    \/ \E w \in CumuThreads : CumulativeJoined(w)
    \/ \E w \in CumuThreads : CumulativeReturn(w)
    \/ \E w \in CumuThreads : CumulativeWake(w)

Spec == Init /\ [][Next]_vars

(***************************************************************************)
(* The scheduling the operating system guarantees: a thread that can take  *)
(* a step eventually takes one; a sleep ends; and (the premise of the      *)
(* liveness claims) a collaborator call returns.                           *)
(***************************************************************************)
Fairness ==
    /\ WF_vars(Boot)
    /\ \A w \in Workers : WF_vars(Thread(w))

FairSpec == InitWith(PoolConfigs) /\ [][Next]_vars /\ Fairness

(***************************************************************************)
(* A collaborator call that may never return: the first base-compaction    *)
(* worker is scheduled like every thread, but nothing makes its            *)
(* perform_base_compaction() return.  The base pool has a second worker.   *)
(***************************************************************************)
Stalled == <<"base_compaction", 0>>

StallConfigs ==
    {[BaseConfig EXCEPT !.base_compaction_num_threads = MaxThreads + 1]}

StallFairness ==
    /\ WF_vars(Boot)
    /\ \A w \in Workers \ {Stalled} : WF_vars(Thread(w))
    /\ WF_vars(pc[Stalled] # "call" /\ Thread(Stalled))

StallSpec == InitWith(StallConfigs) /\ [][Next]_vars /\ StallFairness

(***************************************************************************)
(* The garbage sweeper on its own: the behaviours in which only the        *)
(* bootstrap's first statement and the sweeper thread are scheduled, over  *)
(* every pair of sweep intervals and every whole usage percentage.  The    *)
(* sweeper reads and writes only its own locals, so what holds of them     *)
(* here holds under every scheduling of the other threads.                 *)
(***************************************************************************)
SweepInit == InitWith(SweepConfigs)

SweepNext ==
    \/ StartGarbageSweeper
    \/ SweeperValidate
    \/ SweeperCompute
    \/ SweeperWake
    \/ SweeperReturn(FineUsage)

SweepSpec == SweepInit /\ [][SweepNext]_vars

(***************************************************************************)
(* The compaction pools on their own: the bootstrap and the compaction     *)
(* workers are scheduled, over positive check intervals on both sides of   *)
(* the largest number of seconds whose microseconds fit 32 bits.  A        *)
(* compaction worker reads and writes only its own locals.                 *)
(***************************************************************************)
CompactionIntervals == {1, 4294, 4295, Int32Max}

CompactionConfigs ==
    {[BaseConfig EXCEPT !.base_compaction_check_interval_seconds = s,
                        !.cumulative_compaction_check_interval_seconds = t] :
        s \in CompactionIntervals, t \in CompactionIntervals}

CompactionWorkers == BaseThreads \cup CumuThreads

CompactionNext ==
    \/ StartGarbageSweeper
    \/ StartDiskStatMonitor
    \/ StartUnusedIndex
    \/ ReserveBase
    \/ StartBaseCompaction
    \/ ReserveCumulative
    \/ StartCumulativeCompaction
    \/ StartFdCacheClean
    \/ BootReturn
    \/ \E w \in BaseThreads : BaseValidate(w)
    \/ \E w \in BaseThreads : BaseJoined(w)
    \/ \E w \in BaseThreads : BaseReturn(w)
    \/ \E w \in BaseThreads : BaseWake(w)
    \/ \E w \in CumuThreads : CumulativeValidate(w)
    \/ \E w \in CumuThreads : CumulativeJoined(w)
    \/ \E w \in CumuThreads : CumulativeReturn(w)
    \/ \E w \in CumuThreads : CumulativeWake(w)

CompactionSpec == InitWith(CompactionConfigs) /\ [][CompactionNext]_vars

(***************************************************************************)
(* g_schema_change_active_threads is a volatile uint32_t: ++ and -- on it  *)
(* are a load, an add and a store, and nothing orders them between         *)
(* threads.  The threads of the schema-change subsystem increment it when  *)
(* a schema change starts and decrement it when it ends.                   *)
(***************************************************************************)
\* schema changes each thread may run
MaxRounds == 2

U32Inc(a) ==
    IF a[2] = Half - 1 THEN <<(a[1] + 1) % Half, 0>> ELSE <<a[1], a[2] + 1>>

U32Dec(a) ==
    IF a[2] = 0 THEN <<(a[1] + Half - 1) % Half, Half - 1>>
    ELSE <<a[1], a[2] - 1>>

CounterFrame ==
    UNCHANGED <<cfg, bootVars, pc, interval, sweepVars, useconds, dataVars>>

\* ++g_schema_change_active_threads: the load
IncLoad(t) ==
    /\ changer[t] = "idle"
    /\ incs < MaxRounds * MaxChangers
    /\ changer' = [changer EXCEPT ![t] = "incrementing"]
    /\ loaded' = [loaded EXCEPT ![t] = g_schema_change_active_threads]
    /\ UNCHANGED <<g_schema_change_active_threads, incs, decs>>
    /\ CounterFrame

\* ++g_schema_change_active_threads: the store
IncStore(t) ==
    /\ changer[t] = "incrementing"
    /\ changer' = [changer EXCEPT ![t] = "active"]
    /\ g_schema_change_active_threads' = U32Inc(loaded[t])
    /\ incs' = incs + 1
    /\ UNCHANGED <<loaded, decs>>
    /\ CounterFrame

\* --g_schema_change_active_threads: the load
DecLoad(t) ==
    /\ changer[t] = "active"
    /\ changer' = [changer EXCEPT ![t] = "decrementing"]
    /\ loaded' = [loaded EXCEPT ![t] = g_schema_change_active_threads]
    /\ UNCHANGED <<g_schema_change_active_threads, incs, decs>>
    /\ CounterFrame

\* --g_schema_change_active_threads: the store
DecStore(t) ==
    /\ changer[t] = "decrementing"
    /\ changer' = [changer EXCEPT ![t] = "idle"]
    /\ g_schema_change_active_threads' = U32Dec(loaded[t])
    /\ decs' = decs + 1
    /\ UNCHANGED <<loaded, incs>>
    /\ CounterFrame

CounterNext ==
    \/ \E t \in Changers : IncLoad(t)
    \/ \E t \in Changers : IncStore(t)
    \/ \E t \in Changers : DecLoad(t)
    \/ \E t \in Changers : DecStore(t)

CounterSpec == InitWith({BaseConfig}) /\ [][CounterNext]_vars

(***************************************************************************)
(* olap_common.h: struct TabletInfo.  tablet_id is a 64-bit and            *)
(* schema_hash a 32-bit signed integer; operator< only compares them, so   *)
(* the identifiers enumerated are a few small values and the extremes of   *)
(* the schema hash.                                                        *)
(***************************************************************************)
\* TabletInfo objects constructed at most
MaxTablets == 3

TabletIds == {-1, 5, 6}

SchemaHashes == {Int32Min, 0, 2, 3}

TabletInfo(in_tablet_id, in_schema_hash) ==
    [tablet_id |-> in_tablet_id, schema_hash |-> in_schema_hash]

\* bool operator<(const TabletInfo& right) const
TabletInfoLessNoTiebreak(left, right) == left.tablet_id < right.tablet_id

TabletInfoLess(left, right) ==
    IF left.tablet_id # right.tablet_id
    THEN left.tablet_id < right.tablet_id
    ELSE left.schema_hash < right.schema_hash

TabletFrame ==
    UNCHANGED <<cfg, bootVars, pc, interval, sweepVars, counterVars, useconds,
                entityVars>>

\* one more TabletInfo is constructed; the earlier results say nothing of it
TabletConstruct ==
    /\ Len(tablets) < MaxTablets
    /\ \E t \in TabletIds, h \in SchemaHashes :
          tablets' = Append(tablets, TabletInfo(t, h))
    /\ less' = <<>>
    /\ TabletFrame

\* every object is compared with every object
TabletCompare ==
    /\ Len(tablets) > 0
    /\ less' = [p \in (1 .. Len(tablets)) \X (1 .. Len(tablets)) |->
                  TabletInfoLess(tablets[p[1]], tablets[p[2]])]
    /\ UNCHANGED tablets
    /\ TabletFrame

TabletNext ==
    \/ TabletConstruct
    \/ TabletCompare

TabletSpec == InitWith({BaseConfig}) /\ [][TabletNext]_vars

(***************************************************************************)
(* olap_common.h: struct RowSetEntity and struct VersionEntity.            *)
(***************************************************************************)
\* add_rowset_entity calls made at most
MaxRowsets == 3

\* column_statistics is a pointer: "nullptr" or the vector it points to
RowSetEntity(rowset_id, num_segments, num_rows, data_size, index_size, empty, column_statistics) ==
    [rowset_id    |-> rowset_id,
     num_segments |-> num_segments,
     num_rows     |-> num_rows,
     data_size    |-> data_size,
     index_size   |-> index_size,
     empty        |-> empty,
     key_ranges   |-> IF column_statistics # "nullptr"
                      THEN column_statistics
                      ELSE <<>>]

\* the rowsets the callers pass
RowSets ==
    {RowSetEntity(id, 1, 10, 100, 10, FALSE, <<"k">>) : id \in 1 .. 2}
        \cup {RowSetEntity(id, 0, 0, 0, 0, TRUE, "nullptr") : id \in 1 .. 2}

EntityVersions == {<<100, 110>>, <<0, 0>>}

EntityHashes == {0, 7}

\* rowset_vec.push_back(rowset)
PushBackUnique(vec, rowset) ==
    IF \E k \in 1 .. Len(vec) : vec[k] = rowset THEN vec ELSE Append(vec, rowset)

PushBack(vec, rowset) == Append(vec, rowset)

\* void add_rowset_entity(const RowSetEntity& rowset)
add_rowset_entity(rowset) ==
    /\ Len(added) < MaxRowsets
    /\ rowset_vec' = PushBack(rowset_vec, rowset)
    /\ added' = Append(added, rowset)
    /\ UNCHANGED <<version, version_hash, constructed>>
    /\ UNCHANGED <<cfg, bootVars, pc, interval, sweepVars, counterVars,
                   useconds, tabletVars>>

EntityNext == \E rowset \in RowSets : add_rowset_entity(rowset)

EntityStart ==
    /\ EngineInit({BaseConfig})
    /\ NoTablets
    /\ EntityInit(EntityVersions, EntityHashes)

EntitySpec == EntityStart /\ [][EntityNext]_vars

(***************************************************************************)
(* What the claims speak of.                                               *)
(***************************************************************************)
FixedWorkers ==
    {FdCache, DiskStat, UnusedIndex} \cup BaseThreads \cup CumuThreads

\* the config:: value worker w validates
ConfiguredInterval(w) ==
    CASE w = FdCache -> cfg.file_descriptor_cache_clean_interval
      [] w = DiskStat -> cfg.disk_stat_monitor_interval
      [] w = UnusedIndex -> cfg.unused_index_monitor_interval
      [] w \in BaseThreads -> cfg.base_compaction_check_interval_seconds
      [] w \in CumuThreads -> cfg.cumulative_compaction_check_interval_seconds

\* the value its callback forces
SafeDefault(w) == IF w = FdCache THEN FdCacheDefault ELSE CheckDefault

Validated(w) == pc[w] \notin {"none", "start"}

Spawned(ws) == {w \in ws : pc[w] # "none"}

\* the interval the sweeper computes at usage percentage p
IntervalAt(p) ==
    SweepInterval(max_interval, min_interval, Ratio(RawRatio(ToPercent(p))))

Quiescent == \A t \in Changers : changer[t] \in {"idle", "active"}

(***************************************************************************)
(* C1: for each fixed-interval worker and every configured interval <= 0,  *)
(* the interval the worker loop uses is the worker's safe default (3600    *)
(* for the fd-cache cleanup, 1 for the others).                            *)
(* The code compares the value after converting it to uint32_t, so only 0  *)
(* is replaced: a negative value is used as 2^32 plus itself.              *)
(***************************************************************************)
C1_IllegalIntervalGetsDefault ==
    \A w \in FixedWorkers :
        (Validated(w) /\ ConfiguredInterval(w) <= 0)
            => interval[w] = ToUint32(SafeDefault(w))

(***************************************************************************)
(* C2: in the garbage sweeper, for every configured (min, max) with        *)
(* min <= 0 or max < min, the values in effect after the start-up          *)
(* validation satisfy min' >= 1 and max' >= min'.                          *)
(***************************************************************************)
C2_ValidatedSweepIntervals ==
    (/\ Validated(Sweeper)
     /\ \/ cfg.min_garbage_sweep_interval <= 0
        \/ cfg.max_garbage_sweep_interval < cfg.min_garbage_sweep_interval)
        => /\ U32GreaterEq(min_interval, ToUint32(1))
           /\ U32GreaterEq(max_interval, min_interval)

\* the validation has forced both values: min = 0, max = 0 became 1, 1
C2_Witness ==
    /\ Validated(Sweeper)
    /\ cfg.min_garbage_sweep_interval = 0
    /\ cfg.max_garbage_sweep_interval = 0
    /\ min_interval = ToUint32(1)
    /\ max_interval = ToUint32(1)

(***************************************************************************)
(* C3: in every iteration of the garbage sweeper, for a carried usage      *)
(* fraction in [0,1] and the validated (min_interval, max_interval), the   *)
(* interval slept satisfies min_interval <= interval <= max_interval.      *)
(***************************************************************************)
C3_SweepIntervalWithinBounds ==
    (pc[Sweeper] = "sleep" /\ usage <= ToPercent(MaxPercent))
        => /\ U32LessEq(min_interval, curr_interval)
           /\ U32LessEq(curr_interval, max_interval)

\* a later iteration, at 70% usage, sleeps strictly between the two bounds
C3_Witness ==
    /\ pc[Sweeper] = "sleep"
    /\ ~first_sleep
    /\ usage = ToPercent(70)
    /\ U32Less(min_interval, curr_interval)
    /\ U32Less(curr_interval, max_interval)

(***************************************************************************)
(* C4: when _start_bg_worker has returned with base_compaction_num_threads *)
(* = N and cumulative_compaction_num_threads = M (N, M >= 0), exactly N    *)
(* base-compaction and exactly M cumulative-compaction workers exist,      *)
(* whatever the other pool's size, and the sweeper, the disk-stat monitor, *)
(* the unused-index and the fd-cache workers exist once each.              *)
(***************************************************************************)
C4_PoolSizes ==
    (/\ boot = "done"
     /\ cfg.base_compaction_num_threads >= 0
     /\ cfg.cumulative_compaction_num_threads >= 0)
        => /\ Cardinality(Spawned(BaseThreads))
                 = cfg.base_compaction_num_threads
           /\ Cardinality(Spawned(CumuThreads))
                 = cfg.cumulative_compaction_num_threads
           /\ Spawned({Sweeper, DiskStat, UnusedIndex, FdCache})
                 = {Sweeper, DiskStat, UnusedIndex, FdCache}

\* pools of different sizes: one base worker, compacting, and no cumulative
C4_Witness ==
    /\ boot = "done"
    /\ cfg.base_compaction_num_threads = 1
    /\ cfg.cumulative_compaction_num_threads = 0
    /\ pc[<<"base_compaction", 0>>] = "call"
    /\ Spawned(CumuThreads) = {}

(***************************************************************************)
(* C5: a negative base_compaction_num_threads or                           *)
(* cumulative_compaction_num_threads is never fatal to the bootstrap: it   *)
(* is replaced by a safe value and the bootstrap still returns.            *)
(* The code passes the value to vector::reserve unchecked, which throws    *)
(* std::length_error out of _start_bg_worker.                              *)
(***************************************************************************)
C5_IllegalPoolSizeNotFatal ==
    (\/ cfg.base_compaction_num_threads < 0
     \/ cfg.cumulative_compaction_num_threads < 0) => boot # "thrown"

(***************************************************************************)
(* C6: provided every collaborator call returns and the threads are        *)
(* scheduled fairly, every worker that was spawned invokes its             *)
(* collaborator infinitely often (it is in the call again and again, and   *)
(* out of it again and again); no worker ever leaves its loop; and a       *)
(* worker leaves a call to the same place whether the call succeeded or    *)
(* failed.                                                                 *)
(***************************************************************************)
PlaceAfterCall(w) == IF w = Sweeper THEN "top" ELSE "sleep"

C6_WorkersNeverStop ==
    /\ \A w \in Workers : []<>(pc[w] \in {"none", "call"})
    /\ \A w \in Workers : []<>(pc[w] # "call")
    /\ [](\A w \in Workers :
             pc[w] \in {"none", "start", "top", "cgroup", "call", "sleep"})
    /\ [][\A w \in Workers :
             (pc[w] = "call" /\ pc'[w] # "call")
                 => pc'[w] = PlaceAfterCall(w)]_vars

\* the sweeper is sweeping again after a sweep that failed
C6_Witness ==
    /\ pc[Sweeper] = "call"
    /\ res = "OLAP_ERR"

(***************************************************************************)
(* C7: the usage the sweeper carries across iterations is a fraction in    *)
(* [0,1] at the start of every iteration, also after a failed sweep that   *)
(* did not write its output.                                               *)
(* The code multiplies usage by 100 in place, so a sweep that does not     *)
(* write it leaves the percentage, which the next iteration multiplies by  *)
(* 100 again.                                                              *)
(***************************************************************************)
C7_CarriedUsageIsFraction ==
    pc[Sweeper] = "top" => usage \in 0 .. MaxPercent

(***************************************************************************)
(* C8: with usage seeded at 1.0, for every validated (min_interval,        *)
(* max_interval) the first interval the sweeper sleeps is min_interval,    *)
(* and start_trash_sweep is not invoked before that first sleep has ended. *)
(***************************************************************************)
C8_FirstSweepAfterMinInterval ==
    /\ (pc[Sweeper] = "sleep" /\ first_sleep) => curr_interval = min_interval
    /\ pc[Sweeper] = "call" => ~first_sleep

\* the first sleep, of min = 5 seconds where max is 3600
C8_Witness ==
    /\ pc[Sweeper] = "sleep"
    /\ first_sleep
    /\ min_interval = ToUint32(5)
    /\ max_interval = ToUint32(3600)
    /\ curr_interval = ToUint32(5)

(***************************************************************************)
(* C9: the sweep interval is non-increasing in the disk usage: the         *)
(* interval computed at a percentage p1 is at least the interval at every  *)
(* percentage p2 >= p1 in [0,100]; and where the raw ratio formula is      *)
(* negative the interval is exactly min_interval.                          *)
(***************************************************************************)
C9_IntervalNonIncreasing ==
    (pc[Sweeper] = "sleep" /\ usage <= ToPercent(MaxPercent))
        => /\ \A p2 \in (usage \div 100) .. MaxPercent :
                 U32LessEq(IntervalAt(p2), curr_interval)
           /\ RawRatio(usage) < 0 => curr_interval = min_interval

\* at 90% the raw ratio is negative and the interval is the minimum
C9_Witness ==
    /\ pc[Sweeper] = "sleep"
    /\ usage = ToPercent(90)
    /\ RawRatio(usage) < 0
    /\ curr_interval = min_interval
    /\ U32Less(min_interval, max_interval)

Compared == DOMAIN less # {}

Slots == 1 .. Len(tablets)

SameTablet(a, b) ==
    /\ tablets[a].tablet_id = tablets[b].tablet_id
    /\ tablets[a].schema_hash = tablets[b].schema_hash

ExactlyOne(x, y, z) ==
    \/ x /\ ~y /\ ~z
    \/ ~x /\ y /\ ~z
    \/ ~x /\ ~y /\ z

C11_TabletInfoTotalOrder ==
    Compared =>
        /\ \A a, b \in Slots :
              ExactlyOne(less[<<a, b>>], less[<<b, a>>], SameTablet(a, b))
        /\ \A a, b, c \in Slots :
              (less[<<a, b>>] /\ less[<<b, c>>]) => less[<<a, c>>]
        /\ \A a, b \in Slots :
              tablets[a].tablet_id < tablets[b].tablet_id => less[<<a, b>>]
        /\ tablets = <<TabletInfo(5, 2), TabletInfo(5, 3), TabletInfo(6, 0)>>
              => less[<<1, 2>>] /\ less[<<2, 3>>] /\ less[<<1, 3>>]

\* the three objects of the example, compared
C11_Witness ==
    /\ Compared
    /\ tablets = <<TabletInfo(5, 2), TabletInfo(5, 3), TabletInfo(6, 0)>>
    /\ less[<<1, 2>>]
    /\ less[<<2, 3>>]
    /\ ~less[<<3, 1>>]

(***************************************************************************)
(* C12: after any sequence of add_rowset_entity calls on a VersionEntity,  *)
(* rowset_vec is exactly the sequence of the arguments in call order       *)
(* (duplicates kept, nothing reordered or removed), and version and        *)
(* version_hash are as the constructor set them.                           *)
(***************************************************************************)
C12_AppendOnly ==
    /\ rowset_vec = added
    /\ version = constructed.version
    /\ version_hash = constructed.version_hash

\* the same rowset added twice, a different one in between, on (100,110)
C12_Witness ==
    /\ version = <<100, 110>>
    /\ Len(rowset_vec) = 3
    /\ rowset_vec[1] = rowset_vec[3]
    /\ rowset_vec[1] # rowset_vec[2]
    /\ rowset_vec = added

(***************************************************************************)
(* C13: in every compaction worker (base and cumulative) each iteration    *)
(* joins the system resource-control group, then makes one compaction      *)
(* pass, then sleeps: a pass is only ever entered from the join, the join  *)
(* is followed by the pass and the pass by the sleep, and when the sleep   *)
(* ends the worker joins the group again before its next pass (the join is *)
(* not made once at worker start only).                                    *)
(***************************************************************************)
C13_JoinBeforeEveryPass ==
    [][\A w \in CompactionWorkers :
          /\ (pc[w] # "call" /\ pc'[w] = "call") => pc[w] = "cgroup"
          /\ (pc[w] = "cgroup" /\ pc'[w] # "cgroup") => pc'[w] = "call"
          /\ (pc[w] = "call" /\ pc'[w] # "call") => pc'[w] = "sleep"
          /\ (pc[w] = "sleep" /\ pc'[w] # "sleep") => pc'[w] = "cgroup"]_vars

\* a base worker has joined, compacted and is asleep, and can only wake up
\* into the join; a cumulative worker is in its pass
C13_Witness ==
    /\ pc[<<"base_compaction", 0>>] = "sleep"
    /\ useconds[<<"base_compaction", 0>>] = ToUint32(Microseconds)
    /\ ENABLED <<BaseWake(<<"base_compaction", 0>>)>>_vars
    /\ pc[<<"cumulative_compaction", 0>>] = "call"

(***************************************************************************)
(* C14: for every positive configured check interval s, the argument of    *)
(* the usleep a compaction worker is in is exactly s * 1,000,000           *)
(* microseconds: the 32-bit multiplication does not wrap around.           *)
(* The code multiplies in 32 bits, so from s = 4295 on the argument is     *)
(* s * 1,000,000 modulo 2^32 (32704 microseconds for 4295 seconds).        *)
(***************************************************************************)
C14_SleepIsExactSeconds ==
    \A w \in CompactionWorkers :
        (pc[w] = "sleep" /\ ConfiguredInterval(w) > 0)
            => ZeroExtend(useconds[w])
                   = Times(ToUint32(ConfiguredInterval(w)),
                           ToUint32(Microseconds))

(***************************************************************************)
(* C15: every instance of the generic periodic harness (fd-cache cleanup,  *)
(* disk-stat monitor, unused-index cleanup) follows validate -> sleep ->   *)
(* act: the worker only ever enters its action from a completed sleep, so  *)
(* no action is invoked before the worker's first sleep.                   *)
(* The disk-stat monitor and the unused-index cleanup act first and sleep  *)
(* afterwards: their first action follows the validation directly.         *)
(***************************************************************************)
HarnessWorkers == {FdCache, DiskStat, UnusedIndex}

C15_SleepBeforeAct ==
    [][\A w \in HarnessWorkers :
          (pc[w] # "call" /\ pc'[w] = "call") => pc[w] = "sleep"]_vars

(***************************************************************************)
(* C17: the bootstrap always terminates and returns the success status     *)
(* after spawning the workers, without waiting for any worker iteration    *)
(* and whatever the collaborator calls of the started workers return.      *)
(* With a negative pool size reserve throws and _start_bg_worker never     *)
(* returns a status.                                                       *)
(***************************************************************************)
C17_BootstrapReturnsSuccess == <>(boot = "done" /\ ret = "OLAP_SUCCESS")

(***************************************************************************)
(* C18: the sweeper's validation leaves a legal configuration untouched:   *)
(* for every configured (min, max) with min > 0 and max >= min the values  *)
(* in effect are exactly (min, max); and whenever the validation changes   *)
(* anything, min is reset to 1 even if the configured min was positive     *)
(* (min = 10, max = 5 yields min' = 1, max' = 5).                          *)
(***************************************************************************)
ConfiguredSweep ==
    [min |-> ToUint32(cfg.min_garbage_sweep_interval),
     max |-> ToUint32(cfg.max_garbage_sweep_interval)]

SweepInEffect == [min |-> min_interval, max |-> max_interval]

C18_LegalSweepConfigUntouched ==
    Validated(Sweeper) =>
        /\ (/\ cfg.min_garbage_sweep_interval > 0
            /\ cfg.max_garbage_sweep_interval
                   >= cfg.min_garbage_sweep_interval)
              => SweepInEffect = ConfiguredSweep
        /\ SweepInEffect # ConfiguredSweep => min_interval = ToUint32(1)
        /\ (/\ cfg.min_garbage_sweep_interval = 10
            /\ cfg.max_garbage_sweep_interval = 5)
              => SweepInEffect = [min |-> ToUint32(1), max |-> ToUint32(5)]

\* a positive min above max: the validation resets min to 1 and keeps max
C18_Witness ==
    /\ Validated(Sweeper)
    /\ cfg.min_garbage_sweep_interval = 10
    /\ cfg.max_garbage_sweep_interval = 5
    /\ min_interval = ToUint32(1)
    /\ max_interval = ToUint32(5)

(***************************************************************************)
(* C16: workers are independent.  Whether or not the collaborator call of  *)
(* one worker ever returns, under fair scheduling every other worker that  *)
(* was spawned (the other member of the same compaction pool included) is  *)
(* in its action again and again and out of it again and again; and no     *)
(* worker ever waits on another: a spawned worker can always take its next *)
(* step.                                                                   *)
(***************************************************************************)
C16_WorkersIndependent ==
    /\ \A w \in Workers \ {Stalled} : []<>(pc[w] \in {"none", "call"})
    /\ \A w \in Workers \ {Stalled} : []<>(pc[w] # "call")
    /\ [](\A w \in Workers : pc[w] # "none" => ENABLED <<Thread(w)>>_vars)

\* the stalled worker is in its call, and so are the other worker of its
\* pool, a cumulative worker and the sweeper
C16_Witness ==
    /\ pc[Stalled] = "call"
    /\ pc[<<"base_compaction", 1>>] = "call"
    /\ pc[<<"cumulative_compaction", 0>>] = "call"
    /\ pc[Sweeper] = "call"

====
